---- MODULE Spec2Model ----
(***************************************************************************)
(* The RSVP playback scheduler of flow-reader (hook useRSVP) together with *)
(* the delay model it arms its timer with, as driven by ReaderView.        *)
(*                                                                         *)
(* A token is a sequence of characters, each a string; the characters     *)
(* outside ASCII are written by name (EmDash, EnDash, Ellipsis, LAquo,     *)
(* RAquo).  The word stream is 0-indexed in the source and 1-indexed here: *)
(* words[index] of the source is words[index + 1] below.                   *)
(*                                                                         *)
(* React is modelled at the granularity of one event: a handler (or a      *)
(* timer callback), the state updates it queues, the render they cause and *)
(* the effects of that render form one atomic step.                        *)
(***************************************************************************)
EXTENDS Integers, Sequences, FiniteSets, TLC

\* ------------------------------------------------------------- bounds
\* Longest word stream explored.
MaxLen == 5
\* seek targets range over -SeekSlack .. MaxLen + SeekSlack.
SeekSlack == 2
\* Stored progress fractions are p / ProgressDen, p in 0 .. ProgressDen.
ProgressDen == 4
\* Tokens per line of the sample book, a line being a paragraph.
LineLen == 3
\* Longest source text explored by the parse.
MaxText == 4
\* Tokens of the book the two views are explored on.
ViewLen == 7
\* Cooldown timers of unmounted scroll views that may be pending at once.
MaxStale == 1
\* Longest run of letters in the words calculateDelay is called on.
MaxCore == 15
\* Longest word getORPIndex is called on.
MaxWord == 4
MaxExtra == 2

\* ------------------------------------------------- program constants
DefaultWpm == 225
WpmMin == 100
WpmMax == 1000
WpmStep == 25
MinDelay == 50
MaxDelay == 3000

\* timerRef.current when no timer handle is stored (null).
Null == 0
\* ScrollReader renders WINDOW_BUFFER paragraphs either side of the anchor.
WINDOW_BUFFER == 40
\* onIndexUpdate seeks when the new index is more than this far from index.
JumpThreshold == 5
\* ArrowLeft / ArrowRight seek this many tokens.
KeySeekStep == 10

\* ------------------------------------------------------------ helpers
Max(a, b) == IF a > b THEN a ELSE b
Min(a, b) == IF a < b THEN a ELSE b

RECURSIVE Gcd(_, _)
Gcd(a, b) == IF b = 0 THEN a ELSE Gcd(b, a % b)

\* An exact fraction n / d in lowest terms (the source computes in doubles).
Frac(n, d) == LET g == Gcd(n, d) IN [num |-> n \div g, den |-> d \div g]

\* s.replace(/[drop]/g, '')
RECURSIVE Strip(_, _)
Strip(s, drop) ==
  IF s = <<>> THEN <<>>
  ELSE IF Head(s) \in drop THEN Strip(Tail(s), drop)
       ELSE <<Head(s)>> \o Strip(Tail(s), drop)

\* ------------------------------------------------------- delay model
EmDash == "EmDash"
EnDash == "EnDash"
Ellipsis == "Ellipsis"
LAquo == "LAquo"
RAquo == "RAquo"
Digits == {"0", "1", "2", "3", "4", "5", "6", "7", "8", "9"}
\* STRIP_PUNCTUATION: . , ! ? ; : " ' ( ) and the two guillemets
StripChars == {".", ",", "!", "?", ";", ":", "\"", "'", "(", ")", LAquo, RAquo}
Quotes == {"\"", "'"}

\* /[set]+["']?$/ : the token ends in a character of set, or in a quote that
\* directly follows one.
EndsWithRun(word, set) ==
  LET n == Len(word) IN
    /\ n >= 1
    /\ \/ word[n] \in set
       \/ n >= 2 /\ word[n] \in Quotes /\ word[n - 1] \in set

STRONG_TERMINATORS(word) == EndsWithRun(word, {".", "?", "!"})
PAUSE_DELIMITERS(word) == EndsWithRun(word, {",", ":", ";"})
MINOR_BREAKS(word) == Len(word) >= 1 /\ word[Len(word)] \in {")", "\""}
NUMERIC_CHECK(word) == \E i \in 1..Len(word) : word[i] \in Digits

\* A length factor without the x1.3 for tokens holding a digit.
lengthFactorNoNumeric(word) ==
  LET len == Len(Strip(word, StripChars)) IN
    IF len < 2 THEN 600
    ELSE IF len < 4 THEN 850
    ELSE IF len < 9 THEN 1000
    ELSE IF len < 14 THEN 1200
    ELSE 1500

\* Length bands read one character too wide (a core of 5 still short).
lengthFactorShifted(word) ==
  LET len == Len(Strip(word, StripChars))
      base == IF len < 3 THEN 600
              ELSE IF len < 6 THEN 850
              ELSE IF len < 10 THEN 1000
              ELSE IF len < 15 THEN 1200
              ELSE 1500
  IN IF NUMERIC_CHECK(word) THEN (base * 13) \div 10 ELSE base

\* Length factor in thousandths, the numeric x1.3 included.
lengthFactor(word) ==
  LET len == Len(Strip(word, StripChars))
      base == IF len < 2 THEN 600
              ELSE IF len < 4 THEN 850
              ELSE IF len < 9 THEN 1000
              ELSE IF len < 14 THEN 1200
              ELSE 1500
  IN IF NUMERIC_CHECK(word) THEN (base * 13) \div 10 ELSE base

\* A punctuation factor that does not look for sentence terminators.
punctuationFactorNoStrong(word) ==
  IF PAUSE_DELIMITERS(word) \/ word = <<EmDash>> \/ word = <<EnDash>> THEN 20
  ELSE IF MINOR_BREAKS(word) \/ word = <<Ellipsis>> THEN 14
  ELSE 10

\* Punctuation factor in tenths.
punctuationFactor(word) ==
  IF STRONG_TERMINATORS(word) THEN 28
  ELSE IF PAUSE_DELIMITERS(word) \/ word = <<EmDash>> \/ word = <<EnDash>> THEN 20
  ELSE IF MINOR_BREAKS(word) \/ word = <<Ellipsis>> THEN 14
  ELSE 10

\* A delay clamped from below only.
calculateDelayNoCeiling(word, w) ==
  LET total == 6 * lengthFactor(word) * punctuationFactor(word) IN
    IF total < MinDelay * w THEN Frac(MinDelay, 1) ELSE Frac(total, w)

\* 60000 / wpm * lengthFactor * punctuationFactor, clamped to [50, 3000]:
\* with the factors in thousandths and tenths it is 6 * lf * pf / wpm.
calculateDelay(word, w) ==
  LET total == 6 * lengthFactor(word) * punctuationFactor(word) IN
    IF total < MinDelay * w THEN Frac(MinDelay, 1)
    ELSE IF total > MaxDelay * w THEN Frac(MaxDelay, 1)
    ELSE Frac(total, w)

\* ------------------------------------------------------------- ORP
\* The opening characters of getORPIndex's pattern: guillemet " ' ( [ {
OrpOpen == {LAquo, "\"", "'", "(", "[", "{"}
\* Its closing characters: . , ! ? ; : guillemet " ' ) ] }
OrpClose == {".", ",", "!", "?", ";", ":", RAquo, "\"", "'", ")", "]", "}"}
\* What the pattern's dot does not match.
LineTerminators == {"\n"}

\* The length of the longest prefix of s made of characters of set.
RECURSIVE LeadingRun(_, _)
LeadingRun(s, set) ==
  IF s # <<>> /\ Head(s) \in set THEN 1 + LeadingRun(Tail(s), set) ELSE 0

\* The length of the longest suffix of s made of characters of set.
RECURSIVE TrailingRun(_, _)
TrailingRun(s, set) ==
  IF s # <<>> /\ s[Len(s)] \in set
    THEN 1 + TrailingRun(SubSeq(s, 1, Len(s) - 1), set)
    ELSE 0

\* An ORP that leaves the leading run out of the offset.
getORPIndexNoPrefix(word) ==
  IF \E i \in 1..Len(word) : word[i] \in LineTerminators
    THEN (3 * Len(word)) \div 10
    ELSE LET prefix == LeadingRun(word, OrpOpen)
             rest == SubSeq(word, prefix + 1, Len(word))
             len == Len(rest) - TrailingRun(rest, OrpClose)
         IN IF len = 0 THEN 0 ELSE (3 * len) \div 10

\* An ORP computed with the factor 3 for 0.3.
getORPIndexFactor3(word) ==
  IF \E i \in 1..Len(word) : word[i] \in LineTerminators
    THEN (3 * Len(word)) \div 10
    ELSE LET prefix == LeadingRun(word, OrpOpen)
             rest == SubSeq(word, prefix + 1, Len(word))
             len == Len(rest) - TrailingRun(rest, OrpClose)
         IN IF len = 0 THEN 0 ELSE prefix + 3 * len

\* getORPIndex: the pattern takes the longest run of opening characters as
\* prefix, then the shortest core that leaves only closing characters; a word
\* with a line terminator does not match and falls back to
\* Math.floor(word.length * 0.3).  Math.floor(n * 0.3) is 3n div 10 in doubles
\* for every n below 2000.
getORPIndex(word) ==
  IF \E i \in 1..Len(word) : word[i] \in LineTerminators
    THEN (3 * Len(word)) \div 10
    ELSE LET prefix == LeadingRun(word, OrpOpen)
             rest == SubSeq(word, prefix + 1, Len(word))
             len == Len(rest) - TrailingRun(rest, OrpClose)
         IN IF len = 0 THEN 0 ELSE prefix + (3 * len) \div 10

\* ------------------------------------------------- tokenizer and parse
\* A text is a sequence of characters.  What \s matches and trim() removes.
WhiteSpace == {" ", "\n", "\t"}
\* PUNCTUATION_PADDING: em dash, en dash, ellipsis.
PaddedChars == {EmDash, EnDash, Ellipsis}

\* text.replace(PUNCTUATION_CLEANUP, match => match === em dash ? em dash : en dash)
cleanText(text) ==
  [i \in 1..Len(text) |->
     IF text[i] \in {EmDash, EnDash}
       THEN (IF text[i] = EmDash THEN EmDash ELSE EnDash)
       ELSE text[i]]

\* s.split(sep) for a one-character separator: the pieces between separators,
\* empty pieces included.
RECURSIVE SplitOn(_, _)
SplitOn(s, sep) ==
  IF \A i \in 1..Len(s) : s[i] # sep THEN <<s>>
  ELSE LET k == CHOOSE i \in 1..Len(s) :
                  s[i] = sep /\ \A j \in 1..(i - 1) : s[j] # sep
       IN <<SubSeq(s, 1, k - 1)>> \o SplitOn(SubSeq(s, k + 1, Len(s)), sep)

\* s.trim()
RECURSIVE trim(_)
trim(s) ==
  IF s = <<>> THEN s
  ELSE IF Head(s) \in WhiteSpace THEN trim(Tail(s))
  ELSE IF s[Len(s)] \in WhiteSpace THEN trim(SubSeq(s, 1, Len(s) - 1))
  ELSE s

\* .replace(/\n/g, ' ')
flattenNewlines(s) == [i \in 1..Len(s) |-> IF s[i] = "\n" THEN " " ELSE s[i]]

\* A padding that puts the space before the character only.
RECURSIVE padPunctuationBefore(_)
padPunctuationBefore(s) ==
  IF s = <<>> THEN <<>>
  ELSE IF Head(s) \in PaddedChars
         THEN <<" ", Head(s)>> \o padPunctuationBefore(Tail(s))
         ELSE <<Head(s)>> \o padPunctuationBefore(Tail(s))

\* .replace(PUNCTUATION_PADDING, ' $1 ')
RECURSIVE padPunctuation(_)
padPunctuation(s) ==
  IF s = <<>> THEN <<>>
  ELSE IF Head(s) \in PaddedChars
         THEN <<" ", Head(s), " ">> \o padPunctuation(Tail(s))
         ELSE <<Head(s)>> \o padPunctuation(Tail(s))

\* s.split(WHITESPACE_SPLIT): the pieces between runs of whitespace, an empty
\* piece where the string starts or ends with a run.
RECURSIVE splitWhitespace(_)
splitWhitespace(s) ==
  IF \A i \in 1..Len(s) : s[i] \notin WhiteSpace THEN <<s>>
  ELSE LET k == CHOOSE i \in 1..Len(s) :
                  s[i] \in WhiteSpace /\ \A j \in 1..(i - 1) : s[j] \notin WhiteSpace
           after == {i \in (k + 1)..Len(s) : s[i] \notin WhiteSpace}
           rest == IF after = {} THEN <<>>
                   ELSE SubSeq(s, CHOOSE i \in after : \A j \in after : i <= j, Len(s))
       IN <<SubSeq(s, 1, k - 1)>> \o splitWhitespace(rest)

\* A tokenizer whose copy loop stops one piece early.
tokenizeDropsLast(text) ==
  IF text = <<>> THEN <<>>
  ELSE LET rawTokens == splitWhitespace(padPunctuation(flattenNewlines(text))) IN
    SelectSeq(SubSeq(rawTokens, 1, Len(rawTokens) - 1), LAMBDA tok : Len(tok) > 0)

\* tokenize: flatten newlines, pad dashes and ellipses, split on whitespace,
\* drop the empty pieces.
tokenize(text) ==
  IF text = <<>> THEN <<>>
  ELSE SelectSeq(splitWhitespace(padPunctuation(flattenNewlines(text))),
                 LAMBDA tok : Len(tok) > 0)

\* tokens.join(' ')
RECURSIVE joinTokens(_)
joinTokens(toks) ==
  IF toks = <<>> THEN <<>>
  ELSE IF Len(toks) = 1 THEN toks[1]
  ELSE toks[1] \o <<" ">> \o joinTokens(Tail(toks))

\* A parse that advances the word count by the space-separated pieces of the
\* line instead of by its tokens.
addChunkBySpaces(acc, chunk) ==
  LET trimmed == trim(chunk) IN
    IF trimmed = <<>> THEN acc
    ELSE LET tokens == tokenize(trimmed) IN
      IF tokens = <<>> THEN acc
      ELSE [paragraphs |-> Append(acc.paragraphs,
                                  [text |-> joinTokens(tokens),
                                   startIndex |-> acc.globalWordCount,
                                   wordCount |-> Len(tokens),
                                   words |-> tokens]),
            flatWords |-> acc.flatWords \o tokens,
            globalWordCount |-> acc.globalWordCount + Len(splitWhitespace(trimmed))]

\* One step of chunks.forEach in the parse effect.
addChunk(acc, chunk) ==
  LET trimmed == trim(chunk) IN
    IF trimmed = <<>> THEN acc
    ELSE LET tokens == tokenize(trimmed) IN
      IF tokens = <<>> THEN acc
      ELSE [paragraphs |-> Append(acc.paragraphs,
                                  [text |-> joinTokens(tokens),
                                   startIndex |-> acc.globalWordCount,
                                   wordCount |-> Len(tokens),
                                   words |-> tokens]),
            flatWords |-> acc.flatWords \o tokens,
            globalWordCount |-> acc.globalWordCount + Len(tokens)]

RECURSIVE addChunks(_, _)
addChunks(acc, chunks) ==
  IF chunks = <<>> THEN acc
  ELSE addChunks(addChunk(acc, Head(chunks)), Tail(chunks))

\* The parse effect: cleanText, split into lines, one paragraph per line that
\* has a token.
parseBook(text) ==
  addChunks([paragraphs |-> <<>>, flatWords |-> <<>>, globalWordCount |-> 0],
            SplitOn(cleanText(text), "\n"))

\* --------------------------------------------------------- word stream
\* The tokens of "Hello, world. This is great!", then a dash and a number.
Sample ==
  << <<"H", "e", "l", "l", "o", ",">>,
     <<"w", "o", "r", "l", "d", ".">>,
     <<"T", "h", "i", "s">>,
     <<"i", "s">>,
     <<"g", "r", "e", "a", "t", "!">>,
     <<EmDash>>,
     <<"4", "2">> >>

Token(i) == Sample[((i - 1) % Len(Sample)) + 1]

\* The flat word stream of a book of n tokens.
Stream(n) == [i \in 1..n |-> Token(i)]

\* The content of the sample book of n tokens: LineLen tokens per line, the
\* tokens of a line separated by one space.
RECURSIVE BookText(_)
BookText(n) ==
  IF n = 0 THEN <<>>
  ELSE BookText(n - 1)
       \o (IF n = 1 THEN <<>> ELSE IF (n - 1) % LineLen = 0 THEN <<"\n">> ELSE <<" ">>)
       \o Token(n)

\* The source texts the parse is explored on.
TextChars == {"a", ".", " ", "\n", EmDash}
Texts == UNION {[1..k -> TextChars] : k \in 0..MaxText}

\* savedIdx = Math.floor(book.progress * flatWords.length) || 0, for the stored
\* progress p / ProgressDen.
savedIdx(p, len) == (p * len) \div ProgressDen

\* ---------------------------------------------------------------- state
VARIABLES
  content,           \* book.content
  isParsing,         \* useState isParsing
  paragraphs,        \* useState paragraphs
  initialIndex,      \* useState initialIndex, the hook's initialIndex prop
  words,             \* useState words: the token sequence
  index,             \* useState index (0-based)
  isPlaying,         \* useState isPlaying
  wpm,               \* ReaderView localWpm, the hook's wpm prop
  timers,            \* pending window.setTimeout timers: records [id, delay]
  timerRef,          \* timerRef.current: a timer id or Null
  isInternalUpdate,  \* isInternalUpdate.current
  mounted,           \* whether the reader session is mounted
  lastOp,            \* history: the operation that produced this state, its
                     \*   argument, and index, isPlaying and lastTickProgress
                     \*   as they were before it
  emitted,           \* history: the callbacks that operation invoked, in order
  lastTickProgress,  \* history: index the latest tick reported since the last
                     \*   seek or restart, -1 if none
  runReports,        \* history: the indices ticks passed to onProgress since
                     \*   the last togglePlay or seek, in order
  completions,       \* history: onComplete calls since the last togglePlay
  cancelled,         \* history: stop or teardown happened, no togglePlay since
  viewMode,          \* useState viewMode: "rsvp" or "scroll"
  scrollIndexRef,    \* scrollIndexRef.current
  isAutoScrolling,   \* ScrollReader's isAutoScrolling.current
  autoScrollTimeout, \* ScrollReader's autoScrollTimeout.current, Null if none
  cooldownTimers,    \* pending cooldown timers of the mounted ScrollReader
  staleCooldowns,    \* pending cooldown timers of unmounted ScrollReaders
  persisted,         \* history: the onUpdateProgress calls of the last step
  lastProduced,      \* history: the index the scroll view or the progress
                     \*   callback produced last, -1 if none yet
  fnInput,           \* a direct call of an exported function: its arguments
  fnPhase,           \* "idle", "input", "applied" or "reapplied"
  fnOutput,          \* what the call returned, as a sequence
  fnRound            \* what the function returned on its own joined output

bookVars == <<content, isParsing, paragraphs, initialIndex>>

scrollVars == <<viewMode, scrollIndexRef, isAutoScrolling, autoScrollTimeout,
                cooldownTimers, staleCooldowns, lastProduced>>

vars == <<content, isParsing, paragraphs, initialIndex, words, index, isPlaying, wpm, timers,
          timerRef, isInternalUpdate, mounted, lastOp, emitted,
          lastTickProgress, runReports, completions, cancelled, viewMode,
          scrollIndexRef, isAutoScrolling, autoScrollTimeout, cooldownTimers,
          staleCooldowns, persisted, lastProduced, fnInput, fnPhase, fnOutput,
          fnRound>>

pureVars == <<fnInput, fnPhase, fnOutput, fnRound>>

sessionVars == <<content, isParsing, paragraphs, initialIndex, words, index, isPlaying, wpm,
                 timers, timerRef, isInternalUpdate, mounted, lastOp, emitted,
                 lastTickProgress, runReports, completions, cancelled,
                 viewMode, scrollIndexRef, isAutoScrolling, autoScrollTimeout,
                 cooldownTimers, staleCooldowns, persisted, lastProduced>>

\* No exported function is being called directly.
NoCall ==
  /\ fnInput = [fn |-> "none"]
  /\ fnPhase = "idle"
  /\ fnOutput = <<>>
  /\ fnRound = <<>>

Op(name, arg) ==
  [op |-> name, arg |-> arg, index |-> index, isPlaying |-> isPlaying,
   report |-> lastTickProgress, cooldown |-> isAutoScrolling, wpm |-> wpm,
   timerRef |-> timerRef]

Progress(i) == [cb |-> "onProgress", idx |-> i]
Complete == [cb |-> "onComplete", idx |-> -1]

TimerIds(ts) == {t.id : t \in ts}

\* clearTimeout(id)
clearTimeout(ts, id) == {t \in ts : t.id # id}

\* The handle window.setTimeout returns: one no pending timer has and the ref
\* does not hold (the browser never hands out a live handle twice).
FreshId(ts, ref) ==
  CHOOSE i \in 1..(Cardinality(ts) + 2) :
    /\ i \notin TimerIds(ts) /\ i # ref
    /\ \A j \in 1..(i - 1) : j \in TimerIds(ts) \/ j = ref

\* A cleanup that forgets to clear the stored timer.
effectCleanupKeeps(ts, ref) == ts

\* The timer effect's cleanup: if (timerRef.current) clearTimeout(timerRef.current)
effectCleanup(ts, ref) == IF ref # Null THEN clearTimeout(ts, ref) ELSE ts

\* An effect body that does not arm for the last token.
effectArmShort(ts, ref, playing, idx, ws, w) ==
  IF playing /\ idx < Len(ws) - 1
    THEN LET id == FreshId(ts, ref) IN
         [timers |-> ts \cup {[id |-> id, delay |-> calculateDelay(ws[idx + 1], w)]},
          timerRef |-> id]
    ELSE [timers |-> ts, timerRef |-> ref]

\* An effect body without the index guard: it arms for the empty word
\* (currentWord || '') when the index is past the stream.
effectArmUnguarded(ts, ref, playing, idx, ws, w) ==
  IF playing
    THEN LET id == FreshId(ts, ref)
             currentWord == IF idx < Len(ws) THEN ws[idx + 1] ELSE <<>>
         IN [timers |-> ts \cup {[id |-> id, delay |-> calculateDelay(currentWord, w)]},
             timerRef |-> id]
    ELSE [timers |-> ts, timerRef |-> ref]

\* An effect body that times the word the index has just left.
effectArmPrevToken(ts, ref, playing, idx, ws, w) ==
  IF playing /\ idx < Len(ws)
    THEN LET id == FreshId(ts, ref) IN
         [timers |-> ts \cup {[id |-> id, delay |-> calculateDelay(ws[Max(idx, 1)], w)]},
          timerRef |-> id]
    ELSE [timers |-> ts, timerRef |-> ref]

\* The timer effect's body, run on the state the render committed.
effectArm(ts, ref, playing, idx, ws, w) ==
  IF playing /\ idx < Len(ws)
    THEN LET id == FreshId(ts, ref) IN
         [timers |-> ts \cup {[id |-> id, delay |-> calculateDelay(ws[idx + 1], w)]},
          timerRef |-> id]
    ELSE [timers |-> ts, timerRef |-> ref]

\* A render whose timer-effect dependencies changed: cleanup, then the body.
\* Without such a render the timers are left as they are.
render(ts, ref, playing, idx, ws, w, rerun) ==
  IF rerun THEN effectArm(effectCleanup(ts, ref), ref, playing, idx, ws, w)
  ELSE [timers |-> ts, timerRef |-> ref]

\* A state change always renders and re-runs the effect; with no state change
\* React bails out, unless the parent re-renders for a reason of its own
\* (ReaderView passes a new onProgress on each of its renders, so any of its
\* renders re-runs the effect).
Reruns(changed) == IF changed THEN {TRUE} ELSE BOOLEAN

\* A stop() that leaves the stored timer running.
stopTimersKeeps(ts, ref) == ts

\* stop(): clear and forget the stored timer, setIsPlaying(false).
stopTimers(ts, ref) == IF ref # Null THEN clearTimeout(ts, ref) ELSE ts

\* A clamp without the lower bound.
clampSeekNoFloor(newIndex, len) == Min(newIndex, len - 1)

\* seek's clamp: Math.max(0, Math.min(newIndex, words.length - 1))
clampSeek(newIndex, len) == Max(0, Min(newIndex, len - 1))

\* seek that does not notify.
seekCallbacksNone(clamped) == <<>>

\* seek's notification: if (onProgress) onProgress(clamped), ReaderView
\* always passing an onProgress.
seekCallbacks(clamped) == <<Progress(clamped)>>

\* An updater that completes one tick late (> for >=).
tickUpdaterLate(prevIndex, len) ==
  LET nextIndex == prevIndex + 1 IN
    IF nextIndex > len
      THEN [report |-> nextIndex, index |-> prevIndex, done |-> TRUE]
      ELSE [report |-> nextIndex, index |-> nextIndex, done |-> FALSE]

\* An updater that completes one tick early.
tickUpdaterEarly(prevIndex, len) ==
  LET nextIndex == prevIndex + 1 IN
    IF nextIndex >= len - 1
      THEN [report |-> nextIndex, index |-> prevIndex, done |-> TRUE]
      ELSE [report |-> nextIndex, index |-> nextIndex, done |-> FALSE]

\* tick's updater: the index it reports, the index it returns, and whether it
\* completes (stop, onComplete).
tickUpdater(prevIndex, len) ==
  LET nextIndex == prevIndex + 1 IN
    IF nextIndex >= len
      THEN [report |-> nextIndex, index |-> prevIndex, done |-> TRUE]
      ELSE [report |-> nextIndex, index |-> nextIndex, done |-> FALSE]

\* togglePlay's branch: restart from 0 when at or past the last index.
toggleRestart(idx, len) == idx >= len - 1

\* A clamp that forgets the upper bound.
clampWpmNoCeiling(w) == Max(WpmMin, w)

\* adjustWpm: Math.max(100, Math.min(1000, localWpm + delta))
clampWpm(w) == Max(WpmMin, Min(WpmMax, w))

SeekTargets == (0 - SeekSlack)..(MaxLen + SeekSlack)
InitWpms == {WpmMin, DefaultWpm, WpmMax}

\* ------------------------------------------------------- reader view
Abs(x) == IF x < 0 THEN 0 - x ELSE x

\* A call of the persistence callback: onUpdateProgress(book.id, idx / total).
Persist(i, total) == [idx |-> i, total |-> total]

\* handleProgressUpdate(idx, total): persists when more than 2000 ms have
\* passed since the last persisted value (late) or idx is at or past the last
\* token.
handleProgressUpdate(idx, total, late) ==
  IF late \/ idx >= total - 1 THEN <<Persist(idx, total)>> ELSE <<>>

\* The onProgress ReaderView passes to the hook: scrollIndexRef.current = idx;
\* if (allWords.length > 0) handleProgressUpdate(idx, allWords.length).
onProgress(idx, total, late) ==
  [scrollIndexRef |-> idx,
   persisted |-> IF total > 0 THEN handleProgressUpdate(idx, total, late) ELSE <<>>]

\* What the callbacks of one step do to ReaderView, in the order they are
\* made; ref is scrollIndexRef.current before them.
RECURSIVE notify(_, _, _, _)
notify(cbs, ref, total, late) ==
  IF cbs = <<>> THEN [scrollIndexRef |-> ref, persisted |-> <<>>]
  ELSE LET r == IF Head(cbs).cb = "onProgress"
                  THEN onProgress(Head(cbs).idx, total, late)
                  ELSE [scrollIndexRef |-> ref, persisted |-> <<>>]
           rest == notify(Tail(cbs), r.scrollIndexRef, total, late)
       IN [scrollIndexRef |-> rest.scrollIndexRef,
           persisted |-> r.persisted \o rest.persisted]

\* A findIndex whose test takes the index one past a paragraph's last token.
activeParagraphIndexInclusive(idx, ps) ==
  LET hits == {i \in 1..Len(ps) :
                 idx >= ps[i].startIndex /\ idx <= ps[i].startIndex + ps[i].wordCount}
  IN IF hits = {} THEN -1
     ELSE (CHOOSE i \in hits : \A j \in hits : i <= j) - 1

\* activeParagraphIndex: paragraphs.findIndex(p => currentIndex >= p.startIndex
\* && currentIndex < p.startIndex + p.wordCount), 0-based, -1 if none.
activeParagraphIndex(idx, ps) ==
  LET hits == {i \in 1..Len(ps) :
                 idx >= ps[i].startIndex /\ idx < ps[i].startIndex + ps[i].wordCount}
  IN IF hits = {} THEN -1
     ELSE (CHOOSE i \in hits : \A j \in hits : i <= j) - 1

\* anchorIndex, startIndex, endIndex: the 0-based indices of the paragraphs
\* ScrollReader renders.
anchorIndex(idx, ps) ==
  IF activeParagraphIndex(idx, ps) = -1 THEN 0 ELSE activeParagraphIndex(idx, ps)
\* A window whose first paragraph is not clamped at 0.
WindowUnclampedStart(idx, ps) ==
  (anchorIndex(idx, ps) - WINDOW_BUFFER)
    .. (Min(Len(ps), anchorIndex(idx, ps) + WINDOW_BUFFER + 1) - 1)

\* visibleParagraphs = paragraphs.slice(startIndex, endIndex), as the set of
\* the 0-based indices it holds.
Window(idx, ps) ==
  Max(0, anchorIndex(idx, ps) - WINDOW_BUFFER)
    .. (Min(Len(ps), anchorIndex(idx, ps) + WINDOW_BUFFER + 1) - 1)

\* The element flow-active-token exists: ScrollReader is shown and a rendered
\* word has globalIndex === currentIndex.
activeEl(mode, idx, ps) == mode = "scroll" /\ activeParagraphIndex(idx, ps) # -1

\* An onIndexUpdate that records the index only when it seeks.
onIndexUpdateSeekOnly(newIdx, idx, ref) ==
  [scrollIndexRef |-> IF Abs(newIdx - idx) > JumpThreshold THEN newIdx ELSE ref,
   seeks |-> Abs(newIdx - idx) > JumpThreshold]

\* An onIndexUpdate that seeks whatever the distance.
onIndexUpdateAlways(newIdx, idx, ref) ==
  [scrollIndexRef |-> newIdx, seeks |-> TRUE]

\* onIndexUpdate: scrollIndexRef.current = newIdx;
\* if (Math.abs(newIdx - index) > 5) seek(newIdx)
onIndexUpdate(newIdx, idx, ref) ==
  [scrollIndexRef |-> newIdx, seeks |-> Abs(newIdx - idx) > JumpThreshold]

\* A scroll handler that looks at isPlaying only.
scrollIgnoredPlayingOnly(playing, flag) == playing

\* handleScroll's early return: if (isPlaying || isAutoScrolling.current ||
\* !containerRef.current) return, the container being there while ScrollReader
\* is mounted.
scrollIgnored(playing, flag) == playing \/ flag

\* The outcomes shouldScroll can have when the auto-centering effect runs: it
\* depends on where the layout put the active token.
ShouldScroll(effectRuns, mode, idx, ps) ==
  IF effectRuns /\ activeEl(mode, idx, ps) THEN BOOLEAN ELSE {FALSE}

\* The auto-centering effect's body when shouldScroll holds: set the flag,
\* clear the stored cooldown timer, arm a new one.
autoCenter(flag, ts, ref, should) ==
  IF should
    THEN LET cleared == IF ref # Null THEN ts \ {ref} ELSE ts
             id == CHOOSE i \in 1..(Cardinality(cleared) + 2) :
                     /\ i \notin cleared /\ i # ref
                     /\ \A j \in 1..(i - 1) : j \in cleared \/ j = ref
         IN [isAutoScrolling |-> TRUE, cooldownTimers |-> cleared \cup {id},
             autoScrollTimeout |-> id]
    ELSE [isAutoScrolling |-> flag, cooldownTimers |-> ts, autoScrollTimeout |-> ref]

\* The initialIndex effect, run because initialIndex changed:
\* if (!isInternalUpdate.current) setIndex(initialIndex);
\* isInternalUpdate.current = false
syncInitialIndex(flag, idx, initial) ==
  [index |-> IF flag THEN idx ELSE initial, isInternalUpdate |-> FALSE]

\* ---------------------------------------------------------------- Init
\* The session once the book is parsed: the stream, the index resumed from the
\* stored progress, Stopped, no timer.
Opened(t, book, p, w) ==
  /\ content = t
  /\ isParsing = FALSE
  /\ paragraphs = book.paragraphs
  /\ words = book.flatWords
  /\ initialIndex = savedIdx(p, Len(words))
  /\ index = initialIndex
  /\ isPlaying = FALSE
  /\ wpm = w
  /\ timers = {}
  /\ timerRef = Null
  /\ isInternalUpdate = FALSE
  /\ mounted = TRUE
  /\ lastOp = [op |-> "init", arg |-> 0, index |-> 0, isPlaying |-> FALSE,
               report |-> -1, cooldown |-> FALSE, wpm |-> w,
               timerRef |-> Null]
  /\ emitted = <<>>
  /\ lastTickProgress = -1
  /\ runReports = <<>>
  /\ completions = 0
  /\ cancelled = FALSE
  /\ viewMode = "rsvp"
  /\ scrollIndexRef = 0
  /\ isAutoScrolling = FALSE
  /\ autoScrollTimeout = Null
  /\ cooldownTimers = {}
  /\ staleCooldowns = 0
  /\ persisted = <<>>
  /\ lastProduced = -1

\* The sample book of n tokens, parsed.
Start(n, p, w) == Opened(BookText(n), parseBook(BookText(n)), p, w)

\* A book opened for the first time (stored progress 0), at any pace the
\* settings can hold.
Init ==
  \E n \in 0..MaxLen, w \in InitWpms : Start(n, 0, w) /\ NoCall

\* -------------------------------------------------------------- actions
\* The index the step's last progress callback carried, produced if it made
\* none.
LastReported(cbs, produced) ==
  LET pc == SelectSeq(cbs, LAMBDA c : c.cb = "onProgress") IN
    IF pc = <<>> THEN produced ELSE pc[Len(pc)].idx

\* What ReaderView does with the callbacks of a step, scrollIndexRef.current
\* being ref when they start.
notifiedFrom(cbs, ref, produced) ==
  \E late \in (IF cbs = <<>> THEN {FALSE} ELSE BOOLEAN) :
    LET r == notify(cbs, ref, Len(words), late) IN
      /\ scrollIndexRef' = r.scrollIndexRef
      /\ persisted' = r.persisted
      /\ lastProduced' = LastReported(cbs, produced)

notified(cbs) == notifiedFrom(cbs, scrollIndexRef, lastProduced)

\* ScrollReader's render after a step that leaves the view mode as it is: the
\* auto-centering effect runs when index or isPlaying changed.
centering(idx2, play2) ==
  /\ \E should \in ShouldScroll(idx2 # index \/ play2 # isPlaying, viewMode,
                               idx2, paragraphs) :
       LET c == autoCenter(isAutoScrolling, cooldownTimers, autoScrollTimeout, should) IN
         /\ isAutoScrolling' = c.isAutoScrolling
         /\ cooldownTimers' = c.cooldownTimers
         /\ autoScrollTimeout' = c.autoScrollTimeout
  /\ UNCHANGED <<viewMode, staleCooldowns>>

togglePlay ==
  /\ mounted
  /\ LET restart == toggleRestart(index, Len(words))
         idx2 == IF restart THEN 0 ELSE index
         play2 == IF restart THEN TRUE ELSE ~isPlaying
     IN \E rerun \in Reruns(idx2 # index \/ play2 # isPlaying) :
          LET e == render(timers, timerRef, play2, idx2, words, wpm, rerun) IN
            /\ index' = idx2
            /\ isPlaying' = play2
            /\ timers' = e.timers
            /\ timerRef' = e.timerRef
            /\ lastTickProgress' = IF restart THEN -1 ELSE lastTickProgress
            /\ centering(idx2, play2)
  /\ notified(<<>>)
  /\ lastOp' = Op("togglePlay", 0)
  /\ emitted' = <<>>
  /\ runReports' = <<>>
  /\ completions' = 0
  /\ cancelled' = FALSE
  /\ UNCHANGED bookVars
  /\ UNCHANGED pureVars
  /\ UNCHANGED <<words, wpm, isInternalUpdate, mounted>>

seek(newIndex) ==
  /\ mounted
  /\ LET clamped == clampSeek(newIndex, Len(words)) IN
       \E rerun \in Reruns(clamped # index) :
         LET e == render(timers, timerRef, isPlaying, clamped, words, wpm, rerun) IN
           /\ index' = clamped
           /\ timers' = e.timers
           /\ timerRef' = e.timerRef
           /\ emitted' = seekCallbacks(clamped)
           /\ notified(seekCallbacks(clamped))
           /\ centering(clamped, isPlaying)
  /\ isInternalUpdate' = TRUE
  /\ lastOp' = Op("seek", newIndex)
  /\ lastTickProgress' = -1
  /\ runReports' = <<>>
  /\ UNCHANGED bookVars
  /\ UNCHANGED pureVars
  /\ UNCHANGED <<words, isPlaying, wpm, mounted, completions, cancelled>>

\* A stop() that also rewinds to the first token.
stopRewinds ==
  /\ mounted
  /\ \E rerun \in Reruns(isPlaying \/ index # 0) :
       LET e == render(stopTimers(timers, timerRef), Null, FALSE, 0, words, wpm, rerun) IN
         /\ timers' = e.timers
         /\ timerRef' = e.timerRef
  /\ index' = 0
  /\ isPlaying' = FALSE
  /\ centering(0, FALSE)
  /\ notified(<<>>)
  /\ lastOp' = Op("stop", 0)
  /\ emitted' = <<>>
  /\ cancelled' = TRUE
  /\ UNCHANGED bookVars
  /\ UNCHANGED pureVars
  /\ UNCHANGED <<words, wpm, isInternalUpdate, mounted, lastTickProgress,
                 runReports, completions>>

stop ==
  /\ mounted
  /\ \E rerun \in Reruns(isPlaying) :
       LET e == render(stopTimers(timers, timerRef), Null, FALSE, index, words, wpm, rerun) IN
         /\ timers' = e.timers
         /\ timerRef' = e.timerRef
  /\ isPlaying' = FALSE
  /\ centering(index, FALSE)
  /\ notified(<<>>)
  /\ lastOp' = Op("stop", 0)
  /\ emitted' = <<>>
  /\ cancelled' = TRUE
  /\ UNCHANGED bookVars
  /\ UNCHANGED pureVars
  /\ UNCHANGED <<words, index, wpm, isInternalUpdate, mounted, lastTickProgress,
                 runReports, completions>>

\* A pending timer fires: tick().
tick ==
  \E t \in timers :
    LET fired == timers \ {t}
        u == tickUpdater(index, Len(words))
        ts2 == IF u.done THEN stopTimers(fired, timerRef) ELSE fired
        ref2 == IF u.done THEN Null ELSE timerRef
        play2 == IF u.done THEN FALSE ELSE isPlaying
        e == render(ts2, ref2, play2, u.index, words, wpm,
                    u.index # index \/ play2 # isPlaying)
    IN /\ index' = u.index
       /\ isPlaying' = play2
       /\ timers' = e.timers
       /\ timerRef' = e.timerRef
       /\ emitted' = IF u.done THEN <<Progress(u.report), Complete>>
                                ELSE <<Progress(u.report)>>
       /\ notified(IF u.done THEN <<Progress(u.report), Complete>>
                              ELSE <<Progress(u.report)>>)
       /\ centering(u.index, play2)
       /\ lastTickProgress' = u.report
       /\ runReports' = Append(runReports, u.report)
       /\ completions' = IF u.done THEN completions + 1 ELSE completions
       /\ isInternalUpdate' = TRUE
       /\ lastOp' = Op("tick", 0)
       /\ UNCHANGED bookVars
       /\ UNCHANGED pureVars
       /\ UNCHANGED <<words, wpm, mounted, cancelled>>

\* adjustWpm(delta): setLocalWpm, onUpdateSettings; the parent re-renders.
adjustWpm(delta) ==
  /\ mounted
  /\ wpm' = clampWpm(wpm + delta)
  /\ LET e == render(timers, timerRef, isPlaying, index, words, wpm', TRUE) IN
       /\ timers' = e.timers
       /\ timerRef' = e.timerRef
  /\ lastOp' = Op("adjustWpm", delta)
  /\ emitted' = <<>>
  /\ persisted' = <<>>
  /\ UNCHANGED scrollVars
  /\ UNCHANGED bookVars
  /\ UNCHANGED pureVars
  /\ UNCHANGED <<words, index, isPlaying, isInternalUpdate, mounted,
                 lastTickProgress, runReports, completions, cancelled>>

\* ReaderView re-renders for a reason of its own (theme, font size, menu).
rerender ==
  /\ mounted
  /\ LET e == render(timers, timerRef, isPlaying, index, words, wpm, TRUE) IN
       /\ timers' = e.timers
       /\ timerRef' = e.timerRef
  /\ lastOp' = Op("rerender", 0)
  /\ emitted' = <<>>
  /\ persisted' = <<>>
  /\ UNCHANGED scrollVars
  /\ UNCHANGED bookVars
  /\ UNCHANGED pureVars
  /\ UNCHANGED <<words, index, isPlaying, wpm, isInternalUpdate, mounted,
                 lastTickProgress, runReports, completions, cancelled>>

\* handleBack: stop(), persist, onBack(); the unmount runs the effect cleanup.
handleBack ==
  /\ mounted
  /\ timers' = effectCleanup(stopTimers(timers, timerRef), Null)
  /\ timerRef' = Null
  /\ isPlaying' = FALSE
  /\ mounted' = FALSE
  /\ lastOp' = Op("handleBack", 0)
  /\ emitted' = <<>>
  /\ persisted' = <<Persist(index, Len(words))>>
  /\ UNCHANGED scrollVars
  /\ cancelled' = TRUE
  /\ UNCHANGED bookVars
  /\ UNCHANGED pureVars
  /\ UNCHANGED <<words, index, wpm, isInternalUpdate, lastTickProgress,
                 runReports, completions>>

\* A switch to scroll mode that leaves the scheduler running and persists
\* nothing.
toScrollNoStop ==
  /\ LET e == render(timers, timerRef, isPlaying, index, words, wpm, TRUE) IN
       /\ timers' = e.timers
       /\ timerRef' = e.timerRef
  /\ viewMode' = "scroll"
  /\ \E should \in ShouldScroll(TRUE, "scroll", index, paragraphs) :
       LET c == autoCenter(FALSE, {}, Null, should) IN
         /\ isAutoScrolling' = c.isAutoScrolling
         /\ cooldownTimers' = c.cooldownTimers
         /\ autoScrollTimeout' = c.autoScrollTimeout
  /\ persisted' = <<>>
  /\ emitted' = <<>>
  /\ UNCHANGED <<index, isPlaying, isInternalUpdate, lastTickProgress, runReports,
                 completions, cancelled, scrollIndexRef, lastProduced,
                 staleCooldowns>>

\* handleToggleMode in RSVP mode: stop(); onUpdateProgress(book.id,
\* index / words.length); setViewMode('scroll').  ScrollReader mounts with
\* fresh refs and its auto-centering effect runs.
toScroll ==
  /\ LET e == render(stopTimers(timers, timerRef), Null, FALSE, index, words, wpm, TRUE) IN
       /\ timers' = e.timers
       /\ timerRef' = e.timerRef
  /\ isPlaying' = FALSE
  /\ viewMode' = "scroll"
  /\ \E should \in ShouldScroll(TRUE, "scroll", index, paragraphs) :
       LET c == autoCenter(FALSE, {}, Null, should) IN
         /\ isAutoScrolling' = c.isAutoScrolling
         /\ cooldownTimers' = c.cooldownTimers
         /\ autoScrollTimeout' = c.autoScrollTimeout
  /\ persisted' = <<Persist(index, Len(words))>>
  /\ emitted' = <<>>
  /\ cancelled' = TRUE
  /\ UNCHANGED <<index, isInternalUpdate, lastTickProgress, runReports, completions,
                 scrollIndexRef, lastProduced, staleCooldowns>>

\* handleToggleMode in scroll mode: seek(scrollIndexRef.current);
\* setViewMode('rsvp').  ScrollReader unmounts; a cooldown timer it armed stays
\* pending and will clear the flag of the unmounted instance.
toRsvp ==
  /\ staleCooldowns + Cardinality(cooldownTimers) <= MaxStale
  /\ LET clamped == clampSeek(scrollIndexRef, Len(words))
         e == render(timers, timerRef, isPlaying, clamped, words, wpm, TRUE)
     IN /\ index' = clamped
        /\ timers' = e.timers
        /\ timerRef' = e.timerRef
        /\ emitted' = seekCallbacks(clamped)
        /\ notified(seekCallbacks(clamped))
  /\ isInternalUpdate' = TRUE
  /\ lastTickProgress' = -1
  /\ runReports' = <<>>
  /\ viewMode' = "rsvp"
  /\ isAutoScrolling' = FALSE
  /\ autoScrollTimeout' = Null
  /\ cooldownTimers' = {}
  /\ staleCooldowns' = staleCooldowns + Cardinality(cooldownTimers)
  /\ UNCHANGED <<isPlaying, completions, cancelled>>

handleToggleMode ==
  /\ mounted
  /\ IF viewMode = "rsvp" THEN toScroll ELSE toRsvp
  /\ lastOp' = Op("handleToggleMode", lastProduced)
  /\ UNCHANGED bookVars
  /\ UNCHANGED pureVars
  /\ UNCHANGED <<words, wpm, mounted>>

\* A step that changes nothing the scheduler or the view holds.
idle ==
  /\ emitted' = <<>>
  /\ persisted' = <<>>
  /\ UNCHANGED <<index, isPlaying, timers, timerRef, isInternalUpdate,
                 lastTickProgress, runReports, completions, cancelled>>
  /\ UNCHANGED scrollVars

\* ScrollReader calls onIndexUpdate(newIdx).
indexUpdate(newIdx) ==
  LET u == onIndexUpdate(newIdx, index, scrollIndexRef) IN
    IF u.seeks
      THEN LET clamped == clampSeek(newIdx, Len(words)) IN
        /\ \E rerun \in Reruns(clamped # index) :
             LET e == render(timers, timerRef, isPlaying, clamped, words, wpm, rerun) IN
               /\ timers' = e.timers
               /\ timerRef' = e.timerRef
        /\ index' = clamped
        /\ emitted' = seekCallbacks(clamped)
        /\ notifiedFrom(seekCallbacks(clamped), u.scrollIndexRef, newIdx)
        /\ centering(clamped, isPlaying)
        /\ isInternalUpdate' = TRUE
        /\ lastTickProgress' = -1
        /\ runReports' = <<>>
        /\ UNCHANGED <<isPlaying, completions, cancelled>>
      ELSE
        /\ scrollIndexRef' = u.scrollIndexRef
        /\ lastProduced' = newIdx
        /\ emitted' = <<>>
        /\ persisted' = <<>>
        /\ UNCHANGED <<index, isPlaying, timers, timerRef, isInternalUpdate,
                       lastTickProgress, runReports, completions, cancelled,
                       viewMode, isAutoScrolling, autoScrollTimeout,
                       cooldownTimers, staleCooldowns>>

\* A scroll event on the container; closest is the 0-based index of the
\* rendered paragraph nearest the viewport centre, -1 when none is rendered.
handleScroll(closest) ==
  /\ mounted /\ viewMode = "scroll"
  /\ closest \in (IF Window(index, paragraphs) = {} THEN {-1}
                  ELSE Window(index, paragraphs))
  /\ IF \/ scrollIgnored(isPlaying, isAutoScrolling)
        \/ closest = -1
        \/ closest = activeParagraphIndex(index, paragraphs)
       THEN idle
       ELSE indexUpdate(paragraphs[closest + 1].startIndex)
  /\ lastOp' = Op("handleScroll", closest)
  /\ UNCHANGED bookVars
  /\ UNCHANGED pureVars
  /\ UNCHANGED <<words, wpm, mounted>>

\* A click on a rendered paragraph: onIndexUpdate(p.startIndex).
clickParagraph(i) ==
  /\ mounted /\ viewMode = "scroll"
  /\ i \in Window(index, paragraphs)
  /\ indexUpdate(paragraphs[i + 1].startIndex)
  /\ lastOp' = Op("clickParagraph", i)
  /\ UNCHANGED bookVars
  /\ UNCHANGED pureVars
  /\ UNCHANGED <<words, wpm, mounted>>

\* A click on a word of the active paragraph: onIndexUpdate(globalIndex).
clickWord(globalIndex) ==
  /\ mounted /\ viewMode = "scroll"
  /\ activeParagraphIndex(index, paragraphs) # -1
  /\ LET p == paragraphs[activeParagraphIndex(index, paragraphs) + 1] IN
       globalIndex \in p.startIndex .. (p.startIndex + p.wordCount - 1)
  /\ indexUpdate(globalIndex)
  /\ lastOp' = Op("clickWord", globalIndex)
  /\ UNCHANGED bookVars
  /\ UNCHANGED pureVars
  /\ UNCHANGED <<words, wpm, mounted>>

\* The cooldown timer of the mounted ScrollReader fires:
\* isAutoScrolling.current = false.
cooldownExpires ==
  /\ \E t \in cooldownTimers : cooldownTimers' = cooldownTimers \ {t}
  /\ isAutoScrolling' = FALSE
  /\ lastOp' = Op("cooldownExpires", 0)
  /\ emitted' = <<>>
  /\ persisted' = <<>>
  /\ UNCHANGED bookVars
  /\ UNCHANGED pureVars
  /\ UNCHANGED <<words, wpm, mounted, index, isPlaying, timers, timerRef,
                 isInternalUpdate, lastTickProgress, runReports, completions,
                 cancelled, viewMode, scrollIndexRef, autoScrollTimeout,
                 staleCooldowns, lastProduced>>

\* A cooldown timer left by an unmounted ScrollReader fires: it clears that
\* instance's flag, which nothing reads.
staleCooldownExpires ==
  /\ staleCooldowns > 0
  /\ staleCooldowns' = staleCooldowns - 1
  /\ lastOp' = Op("staleCooldownExpires", 0)
  /\ emitted' = <<>>
  /\ persisted' = <<>>
  /\ UNCHANGED bookVars
  /\ UNCHANGED pureVars
  /\ UNCHANGED <<words, wpm, mounted, index, isPlaying, timers, timerRef,
                 isInternalUpdate, lastTickProgress, runReports, completions,
                 cancelled, viewMode, scrollIndexRef, isAutoScrolling,
                 autoScrollTimeout, cooldownTimers, lastProduced>>

Next ==
  \/ togglePlay
  \/ \E t \in SeekTargets : seek(t)
  \/ stop
  \/ tick
  \/ \E d \in {WpmStep, 0 - WpmStep} : adjustWpm(d)
  \/ rerender
  \/ handleBack

Spec == Init /\ [][Next]_vars

\* The session while the book is being parsed: nothing shown, no input taken.
Loading(t, w) ==
  /\ content = t
  /\ isParsing = TRUE
  /\ paragraphs = <<>>
  /\ words = <<>>
  /\ initialIndex = 0
  /\ index = 0
  /\ isPlaying = FALSE
  /\ wpm = w
  /\ timers = {}
  /\ timerRef = Null
  /\ isInternalUpdate = FALSE
  /\ mounted = TRUE
  /\ lastOp = [op |-> "mount", arg |-> 0, index |-> 0, isPlaying |-> FALSE,
               report |-> -1, cooldown |-> FALSE, wpm |-> w,
               timerRef |-> Null]
  /\ emitted = <<>>
  /\ lastTickProgress = -1
  /\ runReports = <<>>
  /\ completions = 0
  /\ cancelled = FALSE
  /\ viewMode = "rsvp"
  /\ scrollIndexRef = 0
  /\ isAutoScrolling = FALSE
  /\ autoScrollTimeout = Null
  /\ cooldownTimers = {}
  /\ staleCooldowns = 0
  /\ persisted = <<>>
  /\ lastProduced = -1

InitParse == \E t \in Texts, w \in InitWpms : Loading(t, w) /\ NoCall

\* The parse effect's timeout callback: setParagraphs, setAllWords,
\* setInitialIndex(savedIdx), setIsParsing(false); the hook then takes the
\* words and the initial index.
finishParse ==
  /\ mounted /\ isParsing
  /\ \E p \in 0..ProgressDen :
       LET book == parseBook(content) IN
         /\ paragraphs' = book.paragraphs
         /\ words' = book.flatWords
         /\ initialIndex' = savedIdx(p, Len(book.flatWords))
         /\ LET u == syncInitialIndex(isInternalUpdate, index, initialIndex') IN
              IF initialIndex' # initialIndex
                THEN index' = u.index /\ isInternalUpdate' = u.isInternalUpdate
                ELSE UNCHANGED <<index, isInternalUpdate>>
  /\ isParsing' = FALSE
  /\ lastOp' = Op("finishParse", 0)
  /\ UNCHANGED <<content, isPlaying, wpm, timers, timerRef,
                 mounted, emitted, lastTickProgress, runReports, completions,
                 cancelled, persisted>>
  /\ UNCHANGED scrollVars
  /\ UNCHANGED pureVars

NextParse == finishParse

SpecParse == InitParse /\ [][NextParse]_vars

\* ---------------------------------------- direct calls of the functions
\* The words calculateDelay is called on: a core of letters, then possibly a
\* digit, then an ending; the dash and ellipsis tokens; the words of the
\* documented examples.
RECURSIVE Letters(_)
Letters(n) == IF n = 0 THEN <<>> ELSE <<"a">> \o Letters(n - 1)

DelayEndings ==
  { <<>>, <<".">>, <<"?">>, <<"!">>, <<",">>, <<";">>, <<":">>, <<")">>,
    <<"\"">>, <<".", "\"">>, <<",", "'">>, <<"!", "?">>, <<".", ")">> }

Great == <<"g", "r", "e", "a", "t", "!">>
Cat == <<"c", "a", "t">>
Internationalization ==
  <<"i", "n", "t", "e", "r", "n", "a", "t", "i", "o", "n", "a", "l", "i", "z",
    "a", "t", "i", "o", "n">>

DelayWords ==
  {Letters(n) \o d \o e : n \in 0..MaxCore, d \in {<<>>, <<"7">>}, e \in DelayEndings}
    \cup {<<EmDash>>, <<EnDash>>, <<Ellipsis>>, Great, Cat, Internationalization}

\* The paces calculateDelay is called with.
Wpms == {w \in WpmMin..WpmMax : w % 5 = 0}

\* One call, or two calls at the same pace.
DelayCalls ==
  {[fn |-> "calculateDelay", words |-> ws, wpm |-> w] :
     ws \in {<<x>> : x \in DelayWords}
              \cup {<<Letters(1) \o <<".">>, Letters(1)>>, <<Internationalization, Cat>>},
     w \in Wpms}

\* The texts tokenize is called on.
TokenizeChars == {"a", ".", " ", "\n", "\t", EmDash, EnDash, Ellipsis}
HelloSentence == joinTokens(Stream(5))
TokenizeCalls ==
  {[fn |-> "tokenize", text |-> t] :
     t \in UNION {[1..k -> TokenizeChars] : k \in 0..MaxText} \cup {HelloSentence}}

\* The words getORPIndex is called on.
OrpChars == {"a", "(", "\"", ".", ")", "\n"}
OrpCalls ==
  {[fn |-> "getORPIndex", word |-> t] :
     t \in UNION {[1..k -> OrpChars] : k \in 0..MaxWord} \cup {Stream(2)[2]}}

InitPure ==
  /\ Loading(<<>>, DefaultWpm)
  /\ fnInput \in DelayCalls \cup TokenizeCalls \cup OrpCalls
  /\ fnPhase = "input"
  /\ fnOutput = <<>>
  /\ fnRound = <<>>

callCalculateDelay ==
  /\ fnPhase = "input" /\ fnInput.fn = "calculateDelay"
  /\ fnOutput' = [i \in 1..Len(fnInput.words) |->
                    calculateDelay(fnInput.words[i], fnInput.wpm)]
  /\ fnPhase' = "applied"
  /\ UNCHANGED <<fnInput, fnRound>>
  /\ UNCHANGED sessionVars

callTokenize ==
  /\ fnPhase = "input" /\ fnInput.fn = "tokenize"
  /\ fnOutput' = tokenize(fnInput.text)
  /\ fnPhase' = "applied"
  /\ UNCHANGED <<fnInput, fnRound>>
  /\ UNCHANGED sessionVars

\* tokenize called on its own output joined with spaces.
callRetokenize ==
  /\ fnPhase = "applied" /\ fnInput.fn = "tokenize"
  /\ fnRound' = tokenize(joinTokens(fnOutput))
  /\ fnPhase' = "reapplied"
  /\ UNCHANGED <<fnInput, fnOutput>>
  /\ UNCHANGED sessionVars

callGetORPIndex ==
  /\ fnPhase = "input" /\ fnInput.fn = "getORPIndex"
  /\ fnOutput' = <<getORPIndex(fnInput.word)>>
  /\ fnPhase' = "applied"
  /\ UNCHANGED <<fnInput, fnRound>>
  /\ UNCHANGED sessionVars

NextPure ==
  \/ callCalculateDelay
  \/ callTokenize
  \/ callRetokenize
  \/ callGetORPIndex

SpecPure == InitPure /\ [][NextPure]_vars

\* Both views at the default pace, on the empty book and on one of ViewLen
\* tokens: the keyboard, the mode button, the scroll view's events and timers.
InitView ==
  \E n \in {0, ViewLen}, p \in 0..ProgressDen :
    Start(n, p, DefaultWpm) /\ NoCall

NextView ==
  \/ togglePlay
  \/ \E d \in {KeySeekStep, 0 - KeySeekStep} : seek(index + d)
  \/ tick
  \/ handleToggleMode
  \/ \E c \in -1..(Len(paragraphs) - 1) : handleScroll(c)
  \/ \E i \in 0..(Len(paragraphs) - 1) : clickParagraph(i)
  \/ \E g \in 0..(Len(words) - 1) : clickWord(g)
  \/ cooldownExpires
  \/ staleCooldownExpires
  \/ handleBack

SpecView == InitView /\ [][NextView]_vars

\* The caller renders the hook with another initialIndex: the initialIndex
\* effect runs, and the timer effect after it if the index moved.
setInitialIndex(i) ==
  /\ mounted
  /\ i # initialIndex
  /\ initialIndex' = i
  /\ LET u == syncInitialIndex(isInternalUpdate, index, i)
         e == render(timers, timerRef, isPlaying, u.index, words, wpm, u.index # index)
     IN /\ index' = u.index
        /\ isInternalUpdate' = u.isInternalUpdate
        /\ timers' = e.timers
        /\ timerRef' = e.timerRef
        /\ centering(u.index, isPlaying)
  /\ notified(<<>>)
  /\ lastOp' = Op("setInitialIndex", i)
  /\ emitted' = <<>>
  /\ lastTickProgress' = -1
  /\ runReports' = <<>>
  /\ UNCHANGED <<content, isParsing, paragraphs>>
  /\ UNCHANGED pureVars
  /\ UNCHANGED <<words, isPlaying, wpm, mounted, completions, cancelled>>

\* The hook at the default pace under a caller that moves initialIndex.
InitSync ==
  \E n \in 0..MaxLen, p \in 0..ProgressDen : Start(n, p, DefaultWpm) /\ NoCall

NextSync ==
  \/ togglePlay
  \/ \E t \in SeekTargets : seek(t)
  \/ stop
  \/ tick
  \/ \E i \in 0..Len(words) : setInitialIndex(i)

SpecSync == InitSync /\ [][NextSync]_vars

\* A book of n lines of one word each.
LinesText(n) ==
  IF n = 0 THEN <<>>
  ELSE [i \in 1..(2 * n - 1) |-> IF i % 2 = 1 THEN "a" ELSE "\n"]

\* Books shorter and longer than the scroll view's window: none, one, one more
\* than the buffer, and more than the buffer on both sides of the anchor.
LongBooks == {0, 1, WINDOW_BUFFER + 1, 2 * WINDOW_BUFFER + 1 + MaxExtra}

\* What the parse makes of LinesText(n): n paragraphs of one token.
LinesBook(n) ==
  [paragraphs |-> [i \in 1..n |-> [text |-> <<"a">>, startIndex |-> i - 1,
                                   wordCount |-> 1, words |-> << <<"a">> >>]],
   flatWords |-> [i \in 1..n |-> <<"a">>],
   globalWordCount |-> n]

InitLong ==
  \E n \in LongBooks, p \in 0..ProgressDen :
    Opened(LinesText(n), LinesBook(n), p, DefaultWpm) /\ NoCall

\* The rendered paragraphs the reader clicks: the first and the last of the
\* window.
ClickTargets ==
  LET w == Window(index, paragraphs) IN
    {i \in w : (\A j \in w : i <= j) \/ (\A j \in w : i >= j)}

NextLong ==
  \/ handleToggleMode
  \/ \E i \in ClickTargets : clickParagraph(i)

SpecLong == InitLong /\ [][NextLong]_vars

\* Autoplay left alone on a non-empty stream: one togglePlay, then only the
\* timer, which the browser fires once its delay has passed.
InitAuto ==
  \E n \in 1..MaxLen, p \in 0..ProgressDen, w \in InitWpms :
    Start(n, p, w) /\ NoCall

NextAuto ==
  \/ lastOp.op = "init" /\ togglePlay
  \/ tick

SpecAuto == InitAuto /\ [][NextAuto]_vars /\ WF_vars(tick)

\* ----------------------------------------------------------- properties
\* The timer armed for the token at the current index at the current pace,
\* and no other.
ArmedForCurrent ==
  /\ index < Len(words)
  /\ \E t \in timers :
       /\ timers = {t}
       /\ t.id = timerRef
       /\ t.delay = calculateDelay(words[index + 1], wpm)

ProgressCalls == SelectSeq(emitted, LAMBDA c : c.cb = "onProgress")
CompleteCalls == SelectSeq(emitted, LAMBDA c : c.cb = "onComplete")

\* C1: at most one scheduler timer is pending in every reachable state; the
\* pending timer is the one timerRef holds (so the next re-arm cancels it), and
\* none is pending once the scheduler has left Playing.
C1_SingleTimer ==
  /\ Cardinality(timers) <= 1
  /\ \A t \in timers : t.id = timerRef
  /\ ~isPlaying => timers = {}

\* A seek while Playing moved the index and re-armed: still one timer.
C1_Witness ==
  /\ lastOp.op = "seek" /\ lastOp.isPlaying /\ lastOp.index # index
  /\ Cardinality(timers) = 1

\* C2: isPlaying implies a pending timer, for every word stream.
C2_PlayingHasTimer == isPlaying => timers # {}

\* C3: on a non-empty stream currentIndex is in [0, len - 1] in every
\* reachable state, the initial one included.
C3_IndexInRange == Len(words) > 0 => index \in 0..(Len(words) - 1)

\* C4: seek(t) on a non-empty stream sets currentIndex to t clamped into
\* [0, len - 1], for every integer t (seek has no guard: no target is
\* rejected).
C4_SeekClamp ==
  lastOp.op = "seek" /\ Len(words) > 0 =>
    index = IF lastOp.arg < 0 THEN 0
            ELSE IF lastOp.arg > Len(words) - 1 THEN Len(words) - 1
            ELSE lastOp.arg

\* seek past the end of a stream of several tokens landed on the last index.
C4_Witness ==
  /\ lastOp.op = "seek" /\ Len(words) >= 2
  /\ lastOp.arg > Len(words) - 1 /\ index = Len(words) - 1

\* C5: seek never changes isPlaying; issued while Stopped it leaves no timer
\* pending, issued while Playing it leaves a timer armed for the token at the
\* new index.
C5_SeekKeepsPlayback ==
  lastOp.op = "seek" =>
    /\ isPlaying = lastOp.isPlaying
    /\ ~isPlaying => timers = {}
    /\ isPlaying => ArmedForCurrent

\* C6: togglePlay at or past the last index restarts from 0 and enters
\* Playing; otherwise it flips isPlaying and keeps the index; entering Playing
\* arms a timer for the current token.
C6_TogglePlay ==
  lastOp.op = "togglePlay" =>
    /\ IF lastOp.index >= Len(words) - 1
         THEN index = 0 /\ isPlaying
         ELSE index = lastOp.index /\ isPlaying = ~lastOp.isPlaying
    /\ isPlaying => ArmedForCurrent

\* C7: a tick at the last index stops the scheduler, leaves no timer pending
\* and invokes onComplete; every other tick advances the index by exactly 1,
\* stays Playing and does not complete.
C7_Tick ==
  lastOp.op = "tick" =>
    IF lastOp.index + 1 >= Len(words)
      THEN ~isPlaying /\ timers = {} /\ Len(CompleteCalls) = 1
      ELSE index = lastOp.index + 1 /\ isPlaying /\ Len(CompleteCalls) = 0

\* The completing tick of a stream of several tokens.
C7_Witness ==
  /\ lastOp.op = "tick" /\ Len(words) >= 2
  /\ lastOp.index + 1 >= Len(words) /\ ~isPlaying

AutoplayDone ==
  ~isPlaying /\ index = Len(words) - 1 /\ completions = 1

\* C8: autoplay left alone terminates: once Playing, the scheduler eventually
\* is Stopped at index len - 1 with onComplete fired exactly once.
C8_Termination ==
  /\ isPlaying ~> AutoplayDone
  /\ [](completions <= 1)
  /\ [][AutoplayDone => AutoplayDone']_vars

\* Autoplay that ran over at least two ticks has completed.
C8_Witness ==
  AutoplayDone /\ lastOp.op = "tick" /\ lastOp.report # -1

\* C9: successive ticks report strictly increasing indices to onProgress, and
\* onProgress is invoked exactly once per tick and exactly once per seek, with
\* the index the seek settled on.
C9_ProgressOrder ==
  /\ lastOp.op = "tick" =>
       /\ Len(ProgressCalls) = 1
       /\ ProgressCalls[1].idx = lastTickProgress
       /\ lastOp.report # -1 => lastTickProgress > lastOp.report
  /\ lastOp.op = "seek" => ProgressCalls = <<Progress(index)>>

\* A tick that directly follows another tick of the same run.
C9_Witness ==
  lastOp.op = "tick" /\ lastOp.report # -1 /\ Len(ProgressCalls) = 1

\* C10: after stop() or teardown no scheduler timer is pending and no timer
\* callback runs until togglePlay is called again.
C10_NoCallbackAfterCancel ==
  cancelled => timers = {} /\ lastOp.op # "tick"

\* stop() was called while Playing.
C10_Witness ==
  cancelled /\ lastOp.op = "stop" /\ lastOp.isPlaying

\* What the scheduler itself holds, the history variables left out.
schedulerVars == <<words, index, isPlaying, wpm, timers, timerRef,
                   isInternalUpdate, mounted>>

\* C11: stop leaves the scheduler Stopped with no pending timer, never changes
\* currentIndex and invokes no callback; a stop() that follows a stop() changes
\* nothing.
C11_StopIdempotent ==
  /\ [](lastOp.op = "stop" =>
          ~isPlaying /\ timers = {} /\ index = lastOp.index /\ emitted = <<>>)
  /\ [][lastOp.op = "stop" /\ lastOp'.op = "stop" => UNCHANGED schedulerVars]_vars

\* stop() on a scheduler that is already Stopped, away from the first token.
C11_Witness ==
  lastOp.op = "stop" /\ ~lastOp.isPlaying /\ cancelled /\ index > 0

\* C12: on an empty stream togglePlay, seek and stop leave currentIndex and
\* isPlaying unchanged and invoke no callback.
C12_EmptyStreamNoOp ==
  Len(words) = 0 /\ lastOp.op \in {"togglePlay", "seek", "stop"} =>
    index = lastOp.index /\ isPlaying = lastOp.isPlaying /\ emitted = <<>>

\* C13: on an empty stream no timer is ever armed.
C13_EmptyStreamNoTimer ==
  Len(words) = 0 => timers = {} /\ timerRef = Null

\* The pace changed on an empty stream whose scheduler says it is Playing.
C13_Witness ==
  Len(words) = 0 /\ isPlaying /\ lastOp.op = "adjustWpm" /\ lastOp.isPlaying

StrictlyIncreasing(s) ==
  \A i, j \in 1..Len(s) : i < j => s[i] < s[j]

\* C14: on a 5-token stream, autoplay started at index 0 is still Playing
\* before its 5th tick, and after the 5th it is Stopped at index 4 with
\* onComplete fired once and onProgress called 5 times with strictly increasing
\* indices; the 5th tick does happen.
C14_EndToEnd ==
  /\ [](Len(words) = 5 /\ runReports # <<>> /\ runReports[1] = 1 =>
          /\ Len(runReports) <= 5
          /\ StrictlyIncreasing(runReports)
          /\ Len(runReports) < 5 => isPlaying /\ completions = 0
          /\ Len(runReports) = 5 =>
               ~isPlaying /\ index = 4 /\ timers = {} /\ completions = 1)
  /\ (Len(words) = 5 /\ isPlaying /\ index = 0 /\ runReports = <<>>)
       ~> (Len(runReports) = 5 /\ ~isPlaying /\ index = 4 /\ completions = 1)

\* The 5-token run from index 0, complete.
C14_Witness ==
  /\ Len(words) = 5 /\ Len(runReports) = 5 /\ runReports[1] = 1
  /\ ~isPlaying /\ index = 4 /\ completions = 1

\* C15: on a non-empty stream neither currentIndex nor any index passed to
\* onProgress equals the stream length: all lie in [0, len - 1].
C15_NoIndexAtLength ==
  Len(words) > 0 =>
    /\ index \in 0..(Len(words) - 1)
    /\ \A i \in 1..Len(ProgressCalls) : ProgressCalls[i].idx \in 0..(Len(words) - 1)


\* C16: the switch from RSVP to scroll mode leaves the scheduler Stopped with
\* no pending timer, hands index / len to the persistence callback and leaves
\* currentIndex as it was.
C16_ToScrollStops ==
  lastOp.op = "handleToggleMode" /\ viewMode = "scroll" =>
    /\ ~isPlaying
    /\ timers = {}
    /\ persisted = <<Persist(lastOp.index, Len(words))>>
    /\ index = lastOp.index

\* The switch was made while Playing, past the first token.
C16_Witness ==
  /\ lastOp.op = "handleToggleMode" /\ viewMode = "scroll"
  /\ lastOp.isPlaying /\ index > 0 /\ ~isPlaying

\* C17: after the switch from scroll mode back to RSVP, currentIndex is the
\* clamped value of the index the scroll view or the progress callback
\* produced last.
C17_ToRsvpSeeksLast ==
  lastOp.op = "handleToggleMode" /\ viewMode = "rsvp" /\ lastOp.arg # -1 =>
    index = Max(0, Min(lastOp.arg, Len(words) - 1))

\* The switch back follows a manual scroll or click that moved the scroll
\* position without moving the scheduler.
C17_Witness ==
  /\ lastOp.op = "handleToggleMode" /\ viewMode = "rsvp"
  /\ lastOp.arg > 0 /\ lastOp.arg # lastOp.index /\ index = lastOp.arg

\* A scroll event taken while Stopped and outside the cooldown whose closest
\* paragraph is not the active one.
ScrollRecomputed ==
  /\ lastOp.op = "handleScroll"
  /\ ~lastOp.isPlaying /\ ~lastOp.cooldown
  /\ lastOp.arg # -1
  /\ lastOp.arg # activeParagraphIndex(lastOp.index, paragraphs)

\* C18 as stated: every such scroll event makes currentIndex the closest
\* paragraph's startIndex.
C18_ScrollSeeksAlways ==
  ScrollRecomputed => index = paragraphs[lastOp.arg + 1].startIndex

\* C18: such a scroll event records the closest paragraph's startIndex as the
\* scroll position; it seeks the scheduler to it when it lies more than 5
\* tokens from currentIndex, and leaves currentIndex alone otherwise.
C18_ScrollSeeksFar ==
  ScrollRecomputed =>
    LET start == paragraphs[lastOp.arg + 1].startIndex IN
      /\ scrollIndexRef = start
      /\ IF Abs(start - lastOp.index) > 5
           THEN index = start /\ emitted = <<Progress(start)>>
           ELSE index = lastOp.index /\ emitted = <<>>

\* A manual scroll that moved the scheduler.
C18_Witness ==
  /\ ScrollRecomputed
  /\ index = paragraphs[lastOp.arg + 1].startIndex
  /\ index # lastOp.index

\* C19: a scroll event taken while Playing or while the cooldown flag is set
\* changes neither currentIndex nor the scroll position and makes no call.
C19_ScrollIgnored ==
  lastOp.op = "handleScroll" /\ (lastOp.isPlaying \/ lastOp.cooldown) =>
    /\ index = lastOp.index
    /\ emitted = <<>>
    /\ persisted = <<>>

\* A scroll event inside the cooldown, while Stopped, whose closest paragraph
\* is far enough from the index for a seek.
C19_Witness ==
  /\ lastOp.op = "handleScroll" /\ lastOp.cooldown /\ ~lastOp.isPlaying
  /\ lastOp.arg # -1
  /\ Abs(paragraphs[lastOp.arg + 1].startIndex - lastOp.index) > 5

RECURSIVE Concat(_)
Concat(seqs) == IF seqs = <<>> THEN <<>> ELSE Head(seqs) \o Concat(Tail(seqs))

\* C20: the parsed paragraphs partition the flat word stream: the first starts
\* at 0, each starts where the one before it ends, each has at least one
\* token, and their token lists concatenated are the stream.
C20_ParagraphPartition ==
  ~isParsing =>
    /\ paragraphs # <<>> => paragraphs[1].startIndex = 0
    /\ \A i \in 1..(Len(paragraphs) - 1) :
         paragraphs[i].startIndex + paragraphs[i].wordCount
           = paragraphs[i + 1].startIndex
    /\ \A i \in 1..Len(paragraphs) :
         /\ paragraphs[i].wordCount >= 1
         /\ paragraphs[i].wordCount = Len(paragraphs[i].words)
    /\ Concat([i \in 1..Len(paragraphs) |-> paragraphs[i].words]) = words

\* A parsed text of two paragraphs, the first a word with a dash set against it.
C20_Witness ==
  /\ ~isParsing /\ lastOp.op = "finishParse" /\ Len(paragraphs) = 2
  /\ paragraphs[1].wordCount = 2 /\ paragraphs[1].words[2] = <<EmDash>>
  /\ paragraphs[2].startIndex = 2


\* C21: the pace is always a multiple of 25 within [100, 1000]; adjustWpm
\* moves it by its step, and an adjustment past a bound leaves it at the bound.
C21_WpmSteps ==
  /\ wpm % 25 = 0 /\ wpm >= 100 /\ wpm <= 1000
  /\ lastOp.op = "adjustWpm" =>
       /\ lastOp.arg \in {25, -25}
       /\ wpm = (IF lastOp.wpm + lastOp.arg > 1000 THEN 1000
                 ELSE IF lastOp.wpm + lastOp.arg < 100 THEN 100
                 ELSE lastOp.wpm + lastOp.arg)

\* A step up asked for at the upper bound.
C21_Witness ==
  lastOp.op = "adjustWpm" /\ lastOp.arg = 25 /\ lastOp.wpm = 1000 /\ wpm = 1000


\* a < b for exact fractions.
Less(a, b) == a.num * b.den < b.num * a.den

DelayCalled == fnPhase = "applied" /\ fnInput.fn = "calculateDelay"

\* C22: every delay calculateDelay returns, for any word and any pace in
\* [100, 1000], lies in [50, 3000] ms.
C22_DelayBounds ==
  DelayCalled =>
    \A i \in 1..Len(fnOutput) :
      /\ 50 * fnOutput[i].den <= fnOutput[i].num
      /\ fnOutput[i].num <= 3000 * fnOutput[i].den

\* A long numeric word ending a sentence at the slowest pace: the product
\* is above the ceiling.
C22_Witness ==
  /\ DelayCalled /\ fnInput.wpm = 100
  /\ Len(fnInput.words[1]) >= 16 /\ fnInput.words[1][Len(fnInput.words[1])] = "."
  /\ \E j \in 1..Len(fnInput.words[1]) : fnInput.words[1][j] = "7"
  /\ fnOutput[1] = [num |-> 3000, den |-> 1]

GreatCalled == DelayCalled /\ fnInput.words = <<Great>> /\ fnInput.wpm = 300

\* C23 as stated: calculateDelay("great!", 300) is 476 ms.
C23_Great476 == GreatCalled => fnOutput = <<[num |-> 476, den |-> 1]>>

\* C23: calculateDelay("great!", 300) is 560 ms: base 200 ms, length factor
\* 1.0 (core "great", length 5, in the band below 9), punctuation factor 2.8.
C23_Great560 ==
  GreatCalled =>
    /\ fnOutput = <<[num |-> 560, den |-> 1]>>
    /\ fnOutput[1].num * 300 * 10 = 60000 * 28 * fnOutput[1].den

C23_Witness == GreatCalled /\ fnOutput[1].num = 560

\* C24: at every pace "a." takes strictly longer than "a", and
\* "internationalization" strictly longer than "cat".
C24_DelayOrdering ==
  DelayCalled /\ Len(fnInput.words) = 2 =>
    /\ fnInput.words \in { << <<"a", ".">>, <<"a">> >>, <<Internationalization, Cat>> }
    /\ Less(fnOutput[2], fnOutput[1])

\* The fastest pace, where the shorter word's delay is at or next to the floor.
C24_Witness ==
  /\ DelayCalled /\ fnInput.wpm = 1000
  /\ fnInput.words = << <<"a", ".">>, <<"a">> >>
  /\ fnOutput[2] = [num |-> 50, den |-> 1]
  /\ Less(fnOutput[2], fnOutput[1])

\* C25: tokenizing the space-joined tokens of a text gives the same tokens.
C25_TokenizeIdempotent ==
  fnPhase = "reapplied" => fnRound = fnOutput

\* A text whose tokens include a dash that was set against a word.
C25_Witness ==
  /\ fnPhase = "reapplied" /\ Len(fnOutput) = 3
  /\ fnOutput[2] = <<EmDash>> /\ Len(fnInput.text) = 3
  /\ fnRound = fnOutput

\* C26: no token is empty or holds whitespace; a token holding an em dash, en
\* dash or ellipsis is that one character; the tokens concatenated are the
\* text without its whitespace; the sample sentence gives its five words.
C26_TokenizeShape ==
  fnPhase = "applied" /\ fnInput.fn = "tokenize" =>
    /\ \A i \in 1..Len(fnOutput) :
         /\ fnOutput[i] # <<>>
         /\ \A j \in 1..Len(fnOutput[i]) : fnOutput[i][j] \notin {" ", "\n", "\t"}
         /\ (\E j \in 1..Len(fnOutput[i]) : fnOutput[i][j] \in {EmDash, EnDash, Ellipsis})
              => Len(fnOutput[i]) = 1
    /\ Concat(fnOutput) = Strip(fnInput.text, {" ", "\n", "\t"})
    /\ fnInput.text = HelloSentence =>
         /\ Len(fnOutput) = 5
         /\ fnOutput[1] = <<"H", "e", "l", "l", "o", ",">>
         /\ fnOutput[2] = <<"w", "o", "r", "l", "d", ".">>
         /\ fnOutput[3] = <<"T", "h", "i", "s">>
         /\ fnOutput[4] = <<"i", "s">>
         /\ fnOutput[5] = <<"g", "r", "e", "a", "t", "!">>

\* An ellipsis and an en dash written with no space between them.
C26_Witness ==
  /\ fnPhase = "applied" /\ fnInput.fn = "tokenize"
  /\ fnInput.text = <<"a", Ellipsis, EnDash, ".">>
  /\ Len(fnOutput) = 4

\* C27: 0 <= getORPIndex(word) <= length(word), and getORPIndex("") = 0.
C27_OrpBounds ==
  fnPhase = "applied" /\ fnInput.fn = "getORPIndex" =>
    /\ fnOutput[1] >= 0
    /\ fnOutput[1] <= Len(fnInput.word)
    /\ fnInput.word = <<>> => fnOutput[1] = 0

\* A quoted, bracketed word closing a sentence.
C27_Witness ==
  /\ fnPhase = "applied" /\ fnInput.fn = "getORPIndex"
  /\ fnInput.word = <<"(", "\"", "a", ".">>
  /\ fnOutput = <<2>>

\* C28: a seek issued while Playing cancels the timer armed before it and
\* leaves exactly one timer pending.
C28_SeekRearms ==
  lastOp.op = "seek" /\ lastOp.isPlaying =>
    /\ Cardinality(timers) = 1
    /\ lastOp.timerRef \notin TimerIds(timers)

\* C29: after a tick that does not complete, the scheduler is Playing and the
\* one pending timer was armed with calculateDelay of the token at the new
\* currentIndex at the current pace.
C29_TickRearmsForNew ==
  lastOp.op = "tick" /\ lastOp.index + 1 < Len(words) =>
    /\ isPlaying
    /\ index = lastOp.index + 1
    /\ timers # {}
    /\ \A t \in timers : t.delay = calculateDelay(words[index + 1], wpm)

\* A tick between two tokens whose delays differ.
C29_Witness ==
  /\ lastOp.op = "tick" /\ isPlaying /\ index >= 1 /\ index < Len(words)
  /\ calculateDelay(words[index + 1], wpm) # calculateDelay(words[index], wpm)
  /\ \E t \in timers : t.delay = calculateDelay(words[index + 1], wpm)

\* C30: switching to scroll mode and straight back to RSVP leaves
\* currentIndex where it was.
C30_Continuity ==
  [][(/\ lastOp.op = "handleToggleMode" /\ viewMode = "scroll"
      /\ lastOp'.op = "handleToggleMode" /\ viewMode' = "rsvp")
       => index' = index /\ index = lastOp.index]_vars

\* C31: a change of the caller's initialIndex sets currentIndex to the new
\* initialIndex, whether or not a seek or tick came before it.
C31_InitialIndexSync ==
  lastOp.op = "setInitialIndex" => index = initialIndex /\ index = lastOp.arg

\* The 0-based paragraphs whose range [startIndex, startIndex + wordCount)
\* holds idx.
Holders(idx) ==
  {i \in 0..(Len(paragraphs) - 1) :
     /\ paragraphs[i + 1].startIndex <= idx
     /\ idx < paragraphs[i + 1].startIndex + paragraphs[i + 1].wordCount}

\* C32: every index in [0, len - 1] lies in the range of exactly one paragraph,
\* which is the active one; an index no paragraph holds (at the end of the
\* stream, or with no paragraphs) anchors the window on paragraph 0.
C32_ActiveParagraph ==
  ~isParsing =>
    /\ index \in 0..Len(words)
    /\ \A idx \in 0..Len(words) :
         /\ idx < Len(words) =>
              /\ Cardinality(Holders(idx)) = 1
              /\ Holders(idx) = {activeParagraphIndex(idx, paragraphs)}
         /\ Holders(idx) = {} =>
              /\ activeParagraphIndex(idx, paragraphs) = -1
              /\ anchorIndex(idx, paragraphs) = 0
              /\ \A i \in Window(idx, paragraphs) : i <= WINDOW_BUFFER

\* A book of two paragraphs resumed in the second.
C32_Witness ==
  /\ ~isParsing /\ Len(paragraphs) = 2
  /\ index = paragraphs[2].startIndex
  /\ activeParagraphIndex(index, paragraphs) = 1

\* C33: with paragraphs to show, the window is exactly the paragraphs from
\* max(0, a - 40) up to but not including min(total, a + 41), a being the
\* anchor; it holds a, at most 81 paragraphs, and none outside [0, total).
C33_VisibleWindow ==
  ~isParsing /\ paragraphs # <<>> =>
    LET a == anchorIndex(index, paragraphs)
        total == Len(paragraphs)
        lo == IF a - 40 < 0 THEN 0 ELSE a - 40
        hi == IF a + 41 > total THEN total ELSE a + 41
    IN /\ Window(index, paragraphs) = {i \in 0..(total - 1) : lo <= i /\ i < hi}
       /\ a \in Window(index, paragraphs)
       /\ Cardinality(Window(index, paragraphs)) <= 81
       /\ \A i \in Window(index, paragraphs) : 0 <= i /\ i < total

\* A long book shown around a paragraph with more than the buffer on both
\* sides: the window is cut at neither end of the book.
C33_Witness ==
  /\ ~isParsing /\ viewMode = "scroll"
  /\ anchorIndex(index, paragraphs) > 40
  /\ anchorIndex(index, paragraphs) + 41 < Len(paragraphs)
  /\ Cardinality(Window(index, paragraphs)) = 81

\* C34: calculateDelay(word, wpm) is 60000 / wpm x lengthFactor x
\* punctuationFactor clamped to [50, 3000]: lengthFactor 0.6, 0.85, 1.0, 1.2,
\* 1.5 for a stripped length below 2, 4, 9, 14 or longer, times 1.3 when the
\* token holds a digit; punctuationFactor 2.8 for a closing sentence
\* terminator, else 2.0 for a closing pause delimiter or a dash token, else
\* 1.4 for a closing ) or " or the ellipsis token, else 1.0.
C34_DelayFormula ==
  DelayCalled =>
    \A i \in 1..Len(fnOutput) :
      LET word == fnInput.words[i]
          n == Len(word)
          core == Cardinality({j \in 1..n :
                    word[j] \notin {".", ",", "!", "?", ";", ":", "\"", "'", "(", ")",
                                    LAquo, RAquo}})
          band == IF core < 2 THEN 60 ELSE IF core < 4 THEN 85
                  ELSE IF core < 9 THEN 100 ELSE IF core < 14 THEN 120 ELSE 150
          hasDigit == \E j \in 1..n :
                        word[j] \in {"0", "1", "2", "3", "4", "5", "6", "7", "8", "9"}
          \* lengthFactor x 1000
          lf == IF hasDigit THEN band * 13 ELSE band * 10
          closes(set) ==
            /\ n >= 1
            /\ \/ word[n] \in set
               \/ n >= 2 /\ word[n] \in {"\"", "'"} /\ word[n - 1] \in set
          \* punctuationFactor x 10
          pf == IF closes({".", "?", "!"}) THEN 28
                ELSE IF closes({",", ";", ":"}) \/ word \in {<<EmDash>>, <<EnDash>>} THEN 20
                ELSE IF (n >= 1 /\ word[n] \in {")", "\""}) \/ word = <<Ellipsis>> THEN 14
                ELSE 10
          \* 60000 / wpm x lf / 1000 x pf / 10 = num / den
          num == 6 * lf * pf
          den == fnInput.wpm
          r == fnOutput[i]
      IN IF num < 50 * den THEN r = [num |-> 50, den |-> 1]
         ELSE IF num > 3000 * den THEN r = [num |-> 3000, den |-> 1]
         ELSE r.num * den = num * r.den

\* A five-character token with a digit, closed by a comma and a quote, at 300
\* words a minute: 200 x 1.3 x 2.0.
C34_Witness ==
  /\ DelayCalled /\ fnInput.wpm = 300
  /\ fnInput.words = << <<"a", "a", "a", "a", "7", ",", "'">> >>
  /\ fnOutput = << [num |-> 520, den |-> 1] >>

\* C35: getORPIndex(word) is the length of the leading run of opening
\* brackets and quotes plus floor(0.3 x core length), the core being the word
\* without that run and without its closing run of punctuation and quotes; it
\* is 0 when the core is empty; getORPIndex("world.") is 1.
C35_OrpFormula ==
  fnPhase = "applied" /\ fnInput.fn = "getORPIndex"
    /\ (\A j \in 1..Len(fnInput.word) : fnInput.word[j] # "\n") =>
    LET word == fnInput.word
        n == Len(word)
        opening == {LAquo, "\"", "'", "(", "[", "{"}
        closing == {".", ",", "!", "?", ";", ":", RAquo, "\"", "'", ")", "]", "}"}
        prefixLength == Cardinality({k \in 1..n : \A j \in 1..k : word[j] \in opening})
        suffixLength == Cardinality({k \in (prefixLength + 1)..n :
                                      \A j \in k..n : word[j] \in closing})
        coreLength == n - prefixLength - suffixLength
        \* floor(coreLength x 0.3)
        pivot == CHOOSE q \in 0..n : 10 * q <= 3 * coreLength /\ 3 * coreLength < 10 * (q + 1)
    IN /\ fnOutput[1] = IF coreLength = 0 THEN 0 ELSE prefixLength + pivot
       /\ word = <<"w", "o", "r", "l", "d", ".">> => fnOutput[1] = 1

\* The documented example: core "world", pivot on its second letter.
C35_Witness ==
  /\ fnPhase = "applied" /\ fnInput.fn = "getORPIndex"
  /\ fnInput.word = <<"w", "o", "r", "l", "d", ".">>
  /\ fnOutput = <<1>>

\* C36: a change of pace leaves currentIndex and isPlaying as they were and
\* invokes no callback; made while Playing it cancels the pending timer and
\* leaves exactly one, armed for the current token at the new pace; made while
\* Stopped it leaves no timer.
C36_WpmChange ==
  lastOp.op = "adjustWpm" /\ wpm # lastOp.wpm =>
    /\ index = lastOp.index
    /\ isPlaying = lastOp.isPlaying
    /\ emitted = <<>>
    /\ lastOp.isPlaying =>
         /\ Cardinality(timers) = 1
         /\ lastOp.timerRef \notin TimerIds(timers)
         /\ \A t \in timers : t.delay = calculateDelay(words[index + 1], wpm)
    /\ ~lastOp.isPlaying => timers = {}

\* C37: every value handed to the persistence callback is a fraction
\* idx / total with total > 0 and 0 <= idx <= total, whatever the stream.
C37_PersistedFraction ==
  \A i \in 1..Len(persisted) :
    /\ persisted[i].total > 0
    /\ 0 <= persisted[i].idx
    /\ persisted[i].idx <= persisted[i].total

\* C38: at most one auto-scroll cooldown timer is pending, and while the
\* cooldown flag is set the timer that will clear it is pending.
C38_Cooldown ==
  /\ Cardinality(cooldownTimers) + staleCooldowns <= 1
  /\ isAutoScrolling => autoScrollTimeout \in cooldownTimers

====
